---- MODULE Spec2Model ----
(***************************************************************************)
(* Model of app.py, the Streamlit crash dashboard.  One behaviour is one   *)
(* browser session: every user interaction re-runs the script from line 1  *)
(* in a fresh namespace; only the st.cache_data entry of load_data()       *)
(* survives between runs.  The remote table is fixed for the session.      *)
(***************************************************************************)
EXTENDS Integers, Sequences, FiniteSets, TLC

VARIABLES
    table,                    \* rows of crash_analysis.processed_crash_data
    cache,                    \* st.cache_data entry of load_data: <<>> or <<rows>>
    queried,                  \* a query ran since the cache was last empty/cleared
    fetched,                  \* a query returned rows since the cache was last cleared
    pc,                       \* position of the current script run
    clientDefined,            \* the try block of lines 14-18 completed
    authError,                \* st.error of line 20 is on the page
    df,                       \* the script's df
    selected_collision_type,  \* line 34
    selected_year,            \* line 40: <<lo, hi>>; <<>> when no slider exists
    selected_severity,        \* line 46
    computed,                 \* which of the three views this run has computed
    top_order,                \* value_counts().index[:5], line 68
    crashes_over_time,        \* line 73, as a sequence of <<YearMonth, size>>
    heat_data                 \* line 84

vars == <<table, cache, queried, fetched, pc, clientDefined, authError, df,
          selected_collision_type, selected_year, selected_severity,
          computed, top_order, crashes_over_time, heat_data>>

-----------------------------------------------------------------------------
(* Bounds and input domains *)

MaxRecords == 2
MaxTopRecords == 6

TopN == 5

NaN == <<>>
Num(v) == <<v>>

AllTypes == {"Rear End", "Broadside", "Head On", "Sideswipe", "Hit Object", "Overturned"}
SessionTypes == {"Rear End", "Broadside"}
\* timestamps as yyyymmdd
Stamps == {20200320, 20210105}

SeqsUpTo(S, n) == UNION {[1..k -> S] : k \in 0..n}

SessionRecords ==
    [COLLISIONTYPE : SessionTypes, CRASHDATETIME : Stamps, FATALINJURIES : 0..1,
     LATITUDE : {NaN, Num(37)}, LONGITUDE : {Num(-122)}]

-----------------------------------------------------------------------------
(* Helpers: pandas operations used by the script *)

Range(s) == {s[i] : i \in 1..Len(s)}

Column(d, c) == [i \in 1..Len(d) |-> d[i][c]]

Unique(d, c) == Range(Column(d, c))

SetMin(S) == CHOOSE m \in S : \A x \in S : m <= x
SetMax(S) == CHOOSE m \in S : \A x \in S : m >= x

RECURSIVE Sorted(_)
Sorted(S) == IF S = {} THEN <<>> ELSE <<SetMin(S)>> \o Sorted(S \ {SetMin(S)})

\* pd.to_datetime(...).dt.year
YearOf(ts) == ts \div 10000
\* pd.to_datetime(...).dt.to_period('M'), as the ordinal yyyymm
PeriodM(ts) == ts \div 100

WithYear(d) == [i \in 1..Len(d) |-> d[i] @@ [Year |-> YearOf(d[i].CRASHDATETIME)]]
WithYearMonth(d) == [i \in 1..Len(d) |-> d[i] @@ [YearMonth |-> PeriodM(d[i].CRASHDATETIME)]]

\* the original columns of a row
RawRow(r) == [c \in {"COLLISIONTYPE", "CRASHDATETIME", "FATALINJURIES", "LATITUDE", "LONGITUDE"} |-> r[c]]
Raw(d) == [i \in 1..Len(d) |-> RawRow(d[i])]

-----------------------------------------------------------------------------
(* The three sidebar filters, lines 39-54 *)

FilterByYearExclusive(d, lo, hi) ==
    LET Test(r) == r.Year >= lo /\ r.Year < hi IN SelectSeq(d, Test)

\* line 41: df[(df['Year'] >= selected_year[0]) & (df['Year'] <= selected_year[1])]
FilterByYear(d, lo, hi) ==
    LET Test(r) == r.Year >= lo /\ r.Year <= hi IN SelectSeq(d, Test)

FilterByTypeNotAssigned(d, t) == d

\* lines 48-49
FilterByType(d, t) ==
    IF t # "All"
    THEN LET Test(r) == r.COLLISIONTYPE = t IN SelectSeq(d, Test)
    ELSE d

FilterBySeverityElse(d, s) ==
    IF s = "Fatal"
    THEN LET Test(r) == r.FATALINJURIES > 0 IN SelectSeq(d, Test)
    ELSE LET Test(r) == r.FATALINJURIES = 0 IN SelectSeq(d, Test)

FilterBySeverityAny(d, s) ==
    IF s = "Fatal"
    THEN IF \E i \in 1..Len(d) : d[i].FATALINJURIES > 0 THEN d ELSE <<>>
    ELSE IF s = "Non-Fatal"
    THEN LET Test(r) == r.FATALINJURIES = 0 IN SelectSeq(d, Test)
    ELSE d

\* lines 51-54
FilterBySeverity(d, s) ==
    IF s = "Fatal"
    THEN LET Test(r) == r.FATALINJURIES > 0 IN SelectSeq(d, Test)
    ELSE IF s = "Non-Fatal"
    THEN LET Test(r) == r.FATALINJURIES = 0 IN SelectSeq(d, Test)
    ELSE d

\* the slider of line 40 returns a pair lo <= hi inside [min(years), max(years)]
SliderValues(years) ==
    {<<lo, hi>> \in (years[1]..years[Len(years)]) \X (years[1]..years[Len(years)]) : lo <= hi}

SeverityOptions == {"All", "Fatal", "Non-Fatal"}

-----------------------------------------------------------------------------
(* The three views, lines 66-86 *)

CountOf(d, t) == Cardinality({i \in 1..Len(d) : d[i].COLLISIONTYPE = t})

FirstIndex(d, t) == SetMin({i \in 1..Len(d) : d[i].COLLISIONTYPE = t})

\* Series.value_counts(): the distinct values by descending count.  It sorts
\* with sort_values' default kind (quicksort, not stable), and older pandas
\* lists the keys in hash order, so the order among equal counts is not fixed:
\* the operator yields every order a build can produce.
RECURSIVE DescendingOrders(_, _)
DescendingOrders(d, S) ==
    IF S = {} THEN {<<>>}
    ELSE LET m == SetMax({CountOf(d, t) : t \in S})
         IN UNION {{<<t>> \o o : o \in DescendingOrders(d, S \ {t})} :
                   t \in {u \in S : CountOf(d, u) = m}}

ValueCounts(d) == DescendingOrders(d, Unique(d, "COLLISIONTYPE"))

TakeAll(s, n) == s

\* .index[:5]
Take(s, n) == SubSeq(s, 1, IF Len(s) < n THEN Len(s) ELSE n)

SizeOf(d, k) == Cardinality({i \in 1..Len(d) : d[i].YearMonth = k})

RECURSIVE Dedup(_)
Dedup(s) ==
    IF s = <<>> THEN <<>>
    ELSE LET h == Head(s)
             Test(x) == x # h
         IN <<h>> \o Dedup(SelectSeq(Tail(s), Test))

GroupBySizeUnsorted(d) ==
    LET keys == Dedup(Column(d, "YearMonth"))
    IN [i \in 1..Len(keys) |-> <<keys[i], SizeOf(d, keys[i])>>]

\* line 73: df.groupby('YearMonth').size(): one entry per observed key, keys sorted
GroupBySize(d) ==
    LET keys == Sorted(Unique(d, "YearMonth"))
    IN [i \in 1..Len(keys) |-> <<keys[i], SizeOf(d, keys[i])>>]

\* Series.mean() skips NaN; the mean of no values is NaN
Mean(col) ==
    LET idx == {i \in 1..Len(col) : col[i] # NaN}
        RECURSIVE Sum(_)
        Sum(S) == IF S = {} THEN 0
                  ELSE LET i == CHOOSE j \in S : TRUE IN col[i][1] + Sum(S \ {i})
    IN IF idx = {} THEN NaN ELSE Num(Sum(idx) \div Cardinality(idx))

\* line 84: list(zip(df['LATITUDE'], df['LONGITUDE']))
Zip(a, b) == [i \in 1..Len(a) |-> <<a[i], b[i]>>]

HasNaN(pairs) == \E i \in 1..Len(pairs) : NaN \in {pairs[i][1], pairs[i][2]}

CacheNotStored(c, rows) == c

\* st.cache_data keeps the value load_data() returned
CacheStore(c, rows) == <<rows>>

-----------------------------------------------------------------------------
(* One script run, top to bottom.  A run ends at "done" or with the         *)
(* uncaught exception that stopped it, which Streamlit prints on the page. *)

Exceptions == {"NameError", "QueryError", "IndexError", "ValueError"}
Ended == {"done"} \cup Exceptions

\* the namespace of a run before line 14
FreshRun ==
    /\ pc' = "auth"
    /\ clientDefined' = FALSE
    /\ authError' = FALSE
    /\ df' = <<>>
    /\ selected_collision_type' = "All"
    /\ selected_year' = <<>>
    /\ selected_severity' = "All"
    /\ computed' = {}
    /\ top_order' = <<>>
    /\ crashes_over_time' = <<>>
    /\ heat_data' = <<>>

Init ==
    /\ table \in SeqsUpTo(SessionRecords, MaxRecords)
    /\ cache = <<>>
    /\ queried = FALSE
    /\ fetched = FALSE
    /\ pc = "auth"
    /\ clientDefined = FALSE
    /\ authError = FALSE
    /\ df = <<>>
    /\ selected_collision_type = "All"
    /\ selected_year = <<>>
    /\ selected_severity = "All"
    /\ computed = {}
    /\ top_order = <<>>
    /\ crashes_over_time = <<>>
    /\ heat_data = <<>>

\* lines 14-20: the except branch reports with st.error and the script goes on
Authenticate ==
    /\ pc = "auth"
    /\ \E ok \in BOOLEAN :
          /\ clientDefined' = ok
          /\ authError' = ~ok
    /\ pc' = "load"
    /\ UNCHANGED <<table, cache, queried, fetched, df, selected_collision_type,
                   selected_year, selected_severity, computed, top_order,
                   crashes_over_time, heat_data>>

\* line 29 through the decorator of line 23: a cached value is returned (as a
\* copy) without running the body of load_data
CallLoadData ==
    /\ pc = "load"
    /\ IF cache # <<>>
       THEN /\ df' = cache[1]
            /\ pc' = "sidebar"
       ELSE /\ df' = df
            /\ pc' = "query"
    /\ UNCHANGED <<table, cache, queried, fetched, clientDefined, authError,
                   selected_collision_type, selected_year, selected_severity,
                   computed, top_order, crashes_over_time, heat_data>>

\* lines 25-27, the body of load_data: a NameError when the try block of line
\* 14 did not bind service_account_info or client; else the query runs and
\* either returns the table or raises.  An exception is not cached.
RunQuery ==
    /\ pc = "query"
    /\ IF ~clientDefined
       THEN /\ pc' = "NameError"
            /\ UNCHANGED <<cache, queried, fetched, df>>
       ELSE \E ok \in BOOLEAN :
               /\ queried' = TRUE
               /\ IF ok
                  THEN /\ cache' = CacheStore(cache, table)
                       /\ fetched' = TRUE
                       /\ df' = table
                       /\ pc' = "sidebar"
                  ELSE /\ pc' = "QueryError"
                       /\ UNCHANGED <<cache, fetched, df>>
    /\ UNCHANGED <<table, clientDefined, authError, selected_collision_type,
                   selected_year, selected_severity, computed, top_order,
                   crashes_over_time, heat_data>>

\* lines 33-34
SelectCollisionType ==
    /\ pc = "sidebar"
    /\ selected_collision_type' \in {"All"} \cup Unique(df, "COLLISIONTYPE")
    /\ pc' = "year"
    /\ UNCHANGED <<table, cache, queried, fetched, clientDefined, authError, df,
                   selected_year, selected_severity, computed, top_order,
                   crashes_over_time, heat_data>>

\* lines 36-43: years[0] of the else branch is an IndexError on an empty frame
YearRange ==
    /\ pc = "year"
    /\ LET d == WithYear(df)
           years == Sorted(Unique(d, "Year"))
       IN IF Len(years) > 1
          THEN \E sel \in SliderValues(years) :
                  /\ selected_year' = sel
                  /\ df' = FilterByYear(d, sel[1], sel[2])
                  /\ pc' = "severity"
          ELSE /\ df' = d
               /\ selected_year' = selected_year
               /\ pc' = IF Len(years) = 0 THEN "IndexError" ELSE "severity"
    /\ UNCHANGED <<table, cache, queried, fetched, clientDefined, authError,
                   selected_collision_type, selected_severity, computed,
                   top_order, crashes_over_time, heat_data>>

\* lines 45-54
SeverityAndFilters ==
    /\ pc = "severity"
    /\ \E s \in SeverityOptions :
          /\ selected_severity' = s
          /\ df' = FilterBySeverity(FilterByType(df, selected_collision_type), s)
    /\ pc' = "top"
    /\ UNCHANGED <<table, cache, queried, fetched, clientDefined, authError,
                   selected_collision_type, selected_year, computed, top_order,
                   crashes_over_time, heat_data>>

\* lines 66-69
RenderTopTypes ==
    /\ pc = "top"
    /\ \E order \in ValueCounts(df) : top_order' = Take(order, TopN)
    /\ computed' = computed \cup {"top"}
    /\ pc' = "series"
    /\ UNCHANGED <<table, cache, queried, fetched, clientDefined, authError, df,
                   selected_collision_type, selected_year, selected_severity,
                   crashes_over_time, heat_data>>

\* lines 71-80
RenderCrashesOverTime ==
    /\ pc = "series"
    /\ df' = WithYearMonth(df)
    /\ crashes_over_time' = GroupBySize(df')
    /\ computed' = computed \cup {"series"}
    /\ pc' = "heat"
    /\ UNCHANGED <<table, cache, queried, fetched, clientDefined, authError,
                   selected_collision_type, selected_year, selected_severity,
                   top_order, heat_data>>

\* lines 82-86.  folium rejects NaN in a location (line 83) and in the heatmap
\* data (line 85) in some releases and accepts it in others: either outcome.
RenderHeatmap ==
    /\ pc = "heat"
    /\ LET center == <<Mean(Column(df, "LATITUDE")), Mean(Column(df, "LONGITUDE"))>>
           pairs == Zip(Column(df, "LATITUDE"), Column(df, "LONGITUDE"))
       IN \/ /\ NaN \in {center[1], center[2]}
             /\ pc' = "ValueError"
             /\ UNCHANGED <<heat_data, computed>>
          \/ /\ heat_data' = pairs
             /\ computed' = computed \cup {"heat"}
             /\ \/ pc' = "predict"
                \/ HasNaN(pairs) /\ pc' = "ValueError"
    /\ UNCHANGED <<table, cache, queried, fetched, clientDefined, authError, df,
                   selected_collision_type, selected_year, selected_severity,
                   top_order, crashes_over_time>>

\* lines 88-116: the prediction query runs only when the button is pressed
PredictSection ==
    /\ pc = "predict"
    /\ \E pressed \in BOOLEAN, ok \in BOOLEAN :
          pc' = IF ~pressed THEN "done"
                ELSE IF ~clientDefined THEN "NameError"
                ELSE IF ~ok THEN "QueryError"
                ELSE "done"
    /\ UNCHANGED <<table, cache, queried, fetched, clientDefined, authError, df,
                   selected_collision_type, selected_year, selected_severity,
                   computed, top_order, crashes_over_time, heat_data>>

\* a widget change or a page reload re-runs the script from the top
Rerun ==
    /\ pc \in Ended
    /\ FreshRun
    /\ UNCHANGED <<table, cache, queried, fetched>>

\* the "Clear cache" command of Streamlit empties the st.cache_data store;
\* taken between two runs, with the re-run that follows it
ClearCache ==
    /\ pc \in Ended
    /\ cache # <<>> \/ queried
    /\ cache' = <<>>
    /\ queried' = FALSE
    /\ fetched' = FALSE
    /\ FreshRun
    /\ UNCHANGED table

Next ==
    \/ Authenticate
    \/ CallLoadData
    \/ RunQuery
    \/ SelectCollisionType
    \/ YearRange
    \/ SeverityAndFilters
    \/ RenderTopTypes
    \/ RenderCrashesOverTime
    \/ RenderHeatmap
    \/ PredictSection
    \/ Rerun
    \/ ClearCache

Spec == Init /\ [][Next]_vars

-----------------------------------------------------------------------------
(* The ranking of line 68 on its own: df ranges over frames that differ in   *)
(* COLLISIONTYPE only, long enough to hold more than TopN distinct types.    *)

TopRow(t) ==
    [COLLISIONTYPE |-> t, CRASHDATETIME |-> 20200115, FATALINJURIES |-> 0,
     LATITUDE |-> Num(37), LONGITUDE |-> Num(-122), Year |-> 2020]

TypeOrder == <<"Rear End", "Broadside", "Head On", "Sideswipe", "Hit Object", "Overturned">>

\* The ranking treats all type names alike, so the frames are taken up to a
\* renaming of the types: a type occurs first only after its predecessors in
\* TypeOrder have occurred.
FirstOccurrencesInOrder(ix) ==
    \A i \in 1..Len(ix) : ix[i] = 1 \/ \E j \in 1..(i - 1) : ix[j] = ix[i] - 1

TopFrames ==
    {[i \in 1..Len(ix) |-> TopRow(TypeOrder[ix[i]])] :
        ix \in {s \in SeqsUpTo(1..Len(TypeOrder), MaxTopRecords) : FirstOccurrencesInOrder(s)}}

InitTop ==
    /\ df \in TopFrames
    /\ table = Raw(df)
    /\ cache = <<table>>
    /\ queried = TRUE
    /\ fetched = TRUE
    /\ pc = "top"
    /\ clientDefined = TRUE
    /\ authError = FALSE
    /\ selected_collision_type = "All"
    /\ selected_year = <<>>
    /\ selected_severity = "All"
    /\ computed = {}
    /\ top_order = <<>>
    /\ crashes_over_time = <<>>
    /\ heat_data = <<>>

SpecTop == InitTop /\ [][RenderTopTypes]_vars

-----------------------------------------------------------------------------
(* Properties *)

AllViews == {"top", "series", "heat"}

\* positions at which lines 39-54 have run and df is the filtered frame
AfterFilters == pc \in {"top", "series", "heat", "predict", "done"}

DataYears == {YearOf(table[i].CRASHDATETIME) : i \in 1..Len(table)}

\* the year range of the criteria: the slider's value, or the only year of the
\* data when no slider is offered
YearMin == IF selected_year # <<>> THEN selected_year[1] ELSE SetMin(DataYears)
YearMax == IF selected_year # <<>> THEN selected_year[2] ELSE SetMax(DataYears)

Keep(r) ==
    /\ selected_collision_type = "All" \/ r.COLLISIONTYPE = selected_collision_type
    /\ YearMin <= YearOf(r.CRASHDATETIME) /\ YearOf(r.CRASHDATETIME) <= YearMax
    /\ CASE selected_severity = "All" -> TRUE
         [] selected_severity = "Fatal" -> r.FATALINJURIES > 0
         [] selected_severity = "Non-Fatal" -> r.FATALINJURIES = 0

\* the records of the table that satisfy the current criteria, in table order
Expected == SelectSeq(table, Keep)

AllCriteriaActive ==
    /\ selected_collision_type # "All"
    /\ selected_year # <<>>
    /\ selected_severity # "All"

\* C1: the frame the views read holds exactly the records of the table that
\* match the selected type (or "All"), lie in the inclusive year range and
\* satisfy the severity choice, in their original order.
C1_FilteredExactly == AfterFilters => Raw(df) = Expected

C1_Witness ==
    /\ pc = "series"
    /\ AllCriteriaActive
    /\ Len(table) = 2
    /\ Len(df) = 1

\* C2 (as claimed): on an empty table, or when the filters leave no record,
\* the run ends without an exception and all three views are empty.
C2_EmptyRunsToEnd ==
    /\ table = <<>> => pc # "IndexError"
    /\ (df = <<>> /\ computed # {}) => pc # "ValueError"
    /\ (df = <<>> /\ pc = "done") =>
          /\ computed = AllViews
          /\ top_order = <<>> /\ crashes_over_time = <<>> /\ heat_data = <<>>

\* C3 (as claimed): once connecting has failed (st.error of line 20) or the
\* query has raised, no later step of the pipeline runs and no view is computed.
C3_FailureStopsPipeline ==
    /\ authError => pc \in {"load", "query", "NameError"} /\ computed = {}
    /\ pc = "QueryError" /\ computed # AllViews => computed = {}

BothPresent(r) == r.LATITUDE # NaN /\ r.LONGITUDE # NaN

\* C4 (as claimed): the heatmap list has one pair per filtered record with
\* both coordinates present, in order, and nothing for the other records.
C4_HeatmapSkipsMissing ==
    "heat" \in computed =>
        LET present == SelectSeq(df, BothPresent)
        IN heat_data = Zip(Column(present, "LATITUDE"), Column(present, "LONGITUDE"))

Types(d) == Unique(d, "COLLISIONTYPE")

C6_SeriesSortedObserved ==
    "series" \in computed =>
        /\ \A i \in 1..(Len(crashes_over_time) - 1) :
              crashes_over_time[i][1] < crashes_over_time[i + 1][1]
        /\ \A i \in 1..Len(crashes_over_time) :
              /\ crashes_over_time[i][2] >= 1
              /\ crashes_over_time[i][2] =
                    Cardinality({k \in 1..Len(df) :
                        PeriodM(df[k].CRASHDATETIME) = crashes_over_time[i][1]})
        /\ {crashes_over_time[i][1] : i \in 1..Len(crashes_over_time)}
              = {PeriodM(df[k].CRASHDATETIME) : k \in 1..Len(df)}

C6_Witness ==
    /\ "series" \in computed
    /\ Len(df) = 2
    /\ df[1].CRASHDATETIME = 20210105 /\ df[2].CRASHDATETIME = 20200320
    /\ crashes_over_time = <<<<202003, 1>>, <<202101, 1>>>>

\* C7: with type "All", severity "All" and the full year range (or no slider),
\* the filtered frame is the whole table in table order.
C7_FullCriteriaKeepAll ==
    (/\ AfterFilters
     /\ selected_collision_type = "All"
     /\ selected_severity = "All"
     /\ YearMin = SetMin(DataYears) /\ YearMax = SetMax(DataYears))
    => Raw(df) = table

C7_Witness ==
    /\ pc = "top"
    /\ selected_collision_type = "All"
    /\ selected_severity = "All"
    /\ selected_year = <<2020, 2021>>
    /\ Len(table) = 2 /\ Raw(df) = table

C7_WitnessSingleYear ==
    /\ pc = "top"
    /\ selected_collision_type = "All"
    /\ selected_severity = "All"
    /\ selected_year = <<>>
    /\ Len(table) = 2 /\ Raw(df) = table

\* a query is being executed by this step
ExecQuery == pc = "query" /\ clientDefined /\ pc' # pc

\* C8 (as claimed): the query of load_data is executed at most once while the
\* cache is not cleared.
C8_QueryAtMostOnce == [][ExecQuery => ~queried]_vars

\* C8 (amended): the query returns the table at most once while the cache is
\* not cleared, and every run after that takes the table from the cache; a
\* query that raised is not cached and the next run executes it again.
C8_FetchAtMostOnce ==
    [][/\ ExecQuery => ~fetched
       /\ (pc = "load" /\ fetched) => (pc' = "sidebar" /\ df' = table /\ UNCHANGED queried)]_vars

C8_Witness ==
    /\ pc = "sidebar"
    /\ authError
    /\ fetched
    /\ df = table /\ Len(table) = 2

\* C9: every view computed in a run is the view of the table filtered by the
\* criteria selected in that run.
C9_ViewsOfCurrentFilter ==
    /\ "top" \in computed => top_order \in {Take(o, TopN) : o \in ValueCounts(Expected)}
    /\ "series" \in computed => crashes_over_time = GroupBySize(WithYearMonth(Expected))
    /\ "heat" \in computed =>
          heat_data = Zip(Column(Expected, "LATITUDE"), Column(Expected, "LONGITUDE"))

C9_Witness ==
    /\ pc = "done"
    /\ computed = AllViews
    /\ AllCriteriaActive
    /\ Len(table) = 2 /\ Len(df) = 1
    /\ Len(top_order) = 1 /\ Len(crashes_over_time) = 1 /\ Len(heat_data) = 1

ByYear(d) == IF selected_year # <<>> THEN FilterByYear(d, selected_year[1], selected_year[2]) ELSE d
ByType(d) == FilterByType(d, selected_collision_type)
BySeverity(d) == FilterBySeverity(d, selected_severity)

\* C10: the three filters give the script's frame in each of their six
\* orders, and filtering the filtered frame again changes nothing.
C10_FiltersCommuteIdempotent ==
    pc = "top" =>
        LET base == WithYear(table)
        IN /\ df = BySeverity(ByType(ByYear(base)))
           /\ df = ByType(BySeverity(ByYear(base)))
           /\ df = BySeverity(ByYear(ByType(base)))
           /\ df = ByYear(BySeverity(ByType(base)))
           /\ df = ByType(ByYear(BySeverity(base)))
           /\ df = ByYear(ByType(BySeverity(base)))
           /\ df = BySeverity(ByType(ByYear(df)))

C10_Witness ==
    /\ pc = "top"
    /\ AllCriteriaActive
    /\ Len(table) = 2 /\ Len(df) = 1
    /\ table[1].FATALINJURIES = 0 /\ table[2].FATALINJURIES > 0

====
